---- MODULE Spec2Model ----
(***************************************************************************)
(* Session Board visualisation and cross-filtering: the axis-label placer  *)
(* of the activity timeline (selectLabelIndices), the brush matcher        *)
(* (matchesBrush) and the interaction cards of the session board           *)
(* (InteractionCard).                                                      *)
(***************************************************************************)
EXTENDS Integers, Sequences, FiniteSets, TLC

VARIABLES
    count,      \* selectLabelIndices: its argument (dailyBars.length)
    indices,    \* selectLabelIndices: the label indices collected so far
    i,          \* selectLabelIndices: the loop variable of the interior scan
    lpc         \* selectLabelIndices: "call", "loop", "tail" or "done" (returned)

labelVars == <<count, indices, i, lpc>>

VARIABLES
    brush,      \* matchesBrush: its first argument, NULL or an ActiveBrush
    card,       \* matchesBrush: its second argument, a BrushableCard
    matched,    \* matchesBrush: the value returned
    mpc         \* matchesBrush: "call" or "done" (returned)

matchVars == <<brush, card, matched, mpc>>

VARIABLES
    activeBrush,    \* the board's ActiveBrush, or NULL
    lastSetterArg,  \* history: the argument of the last brush setter call
    hovered,        \* the cards the pointer is over
    zoomLevel,      \* the board's zoom setting: 0, 1 or 2
    expanded,       \* the id of the card whose isExpanded prop is true, 0 for none
    triggerRect,    \* InteractionCard: the cards whose triggerRect state is set
    lastClick,      \* history: the last click on a card element
    lastPopoverClick \* history: the last click on an element of the open popover

boardVars ==
    <<activeBrush, lastSetterArg, hovered, zoomLevel, expanded, triggerRect,
      lastClick, lastPopoverClick>>

VARIABLES
    navState,       \* NavigationController: "Idle", "PendingJump" or "Returning"
    targetEventId,  \* NavigationTarget.targetEventId, 0 for none
    savedBoardView, \* NavigationTarget.savedBoardView, or NOVIEW
    boardView,      \* the board's view: scroll offset, zoom level, pinned sessions
    screen,         \* what is mounted: "board", "detail" or "closed"
    session,        \* the session whose events the detail view shows
    loaded,         \* the event ids of the loaded detail set
    jumpSession,    \* the session a pending jump was requested for
    preJumpView,    \* history: the board view when the last link was activated
    restored,       \* history: the board was restored and not touched since
    lastJump        \* history: what the last consumed jump did

navVars ==
    <<navState, targetEventId, savedBoardView, boardView, screen, session, loaded,
      jumpSession, preJumpView, restored, lastJump>>

VARIABLES
    pRect,      \* the trigger card's current on-screen rectangle
    pWin,       \* the current viewport: window.innerWidth, window.innerHeight
    pExpanded,  \* InteractionCard: the isExpanded prop
    pStored,    \* InteractionCard: the triggerRect state, or NORECT
    pPos        \* ExpandedCard: the style of the rendered popover, or NOPOS

popVars == <<pRect, pWin, pExpanded, pStored, pPos>>

VARIABLES
    dailyBars,    \* ContributionGrid: the sessionCount of each DailyBar, oldest first
    maxCount,     \* ContributionGrid: the running and final value of maxCount
    gi,           \* the number of bars the current loop has visited
    intensities,  \* the intensity computed for each bar rendered so far
    gpc           \* position in the render: "max", "bars", "done" or "empty"

gridVars == <<dailyBars, maxCount, gi, intensities, gpc>>

VARIABLES
    selectedExportSessions, \* the Map filePath -> ExportSessionInfo, in insertion order
    isExporting,            \* ExportSliceState.isExporting
    exportProgress,         \* ExportSliceState.exportProgress, or NOPROGRESS
    exportLog               \* history: the last two selection calls, latest first

exportVars == <<selectedExportSessions, isExporting, exportProgress, exportLog>>

VARIABLES
    nSessions,  \* the sessions of a run that loaded with messages: info and first date
    nI,         \* how many of them have been given a filename
    nUsed,      \* usedFilenames
    nWritten    \* history: the filenames chosen, in order

nameVars == <<nSessions, nI, nUsed, nWritten>>

VARIABLES
    runPc,       \* per exportSessions call: "idle", "dialog", "cancelled", "loading",
                 \* "writing" or "done"
    runFolder,   \* folder: what the dialog resolved with, <<>> before it has
    runEntries,  \* entries: the selection the call's closure holds
    runI,        \* i, the loop index
    runExported, \* exported
    runFailed,   \* failed
    runUsed,     \* usedFilenames
    runFilename, \* filename of the write that is awaited
    runToast,    \* the toast of the call: "none", "loading", "success" or "error"
    runLoads,    \* history: the load_session_messages calls, as <<call, filePath>>
    runDisk,     \* history: the files written, as <<call, filename>>
    runLast      \* history: the session processed last and exportProgress just after

runVars ==
    <<runPc, runFolder, runEntries, runI, runExported, runFailed, runUsed, runFilename, runToast,
      runLoads, runDisk, runLast>>

VARIABLES
    providers,            \* ProviderSliceState.providers
    activeProviders,      \* ProviderSliceState.activeProviders
    isDetectingProviders, \* ProviderSliceState.isDetectingProviders
    detectPending         \* the detect_providers calls that have not settled

providerVars == <<providers, activeProviders, isDetectingProviders, detectPending>>

VARIABLES
    updateSettings,     \* the store's updateSettings
    online,             \* navigator.onLine
    isDev,              \* import.meta.env.DEV
    updaterFresh,       \* the updater prop is a new object whenever its state changes
    mounted,            \* SimpleUpdateManager is mounted
    loadPending,        \* loadUpdateSettings() has not resolved
    isSettingsLoaded,   \* useState isSettingsLoaded
    hasAutoChecked,     \* hasAutoCheckedRef.current
    autoTimer,          \* the setTimeout of the auto check is pending
    inFlight,           \* the checkForUpdates() calls that have not settled
    updaterState,       \* the updater's state now: isChecking, error
    renderedState,      \* updater.state as of the last render
    isManualCheck,      \* useState isManualCheck
    lastCheckWasManual, \* useState lastCheckWasManual
    showError,          \* useState showError
    autoScheduled,      \* history: the auto check has been scheduled
    autoStarted         \* history: the timer has called checkForUpdates

updateVars ==
    <<updateSettings, online, isDev, updaterFresh, mounted, loadPending,
      isSettingsLoaded, hasAutoChecked, autoTimer, inFlight, updaterState,
      renderedState, isManualCheck, lastCheckWasManual, showError, autoScheduled,
      autoStarted>>

\* The state of the components added last.
lateVars == <<nameVars, runVars, providerVars, updateVars>>

\* The state of the components added after the first three.
restVars == <<navVars, popVars, gridVars, exportVars, lateVars>>

\* What the actions of one of the last components leave alone.
earlyVars ==
    <<labelVars, matchVars, boardVars, navVars, popVars, gridVars>>

exceptNames == <<earlyVars, exportVars, runVars, providerVars, updateVars>>

exceptRun == <<earlyVars, nameVars, providerVars, updateVars>>

exceptProvider == <<earlyVars, exportVars, nameVars, runVars, updateVars>>

exceptUpdate == <<earlyVars, exportVars, nameVars, runVars, providerVars>>

vars == <<labelVars, matchVars, boardVars, restVars>>

----------------------------------------------------------------------------
(* Bounds of the model *)

\* Longest list of daily bars given to ContributionGrid.
MaxBars == 4

\* Largest sessionCount of a daily bar.
MaxSessions == 3

\* Number of distinct session file paths.
MaxPaths == 3

\* Largest number of checkForUpdates calls awaited when a manual check or a
\* retry starts one more.
MaxChecks == 2

\* Largest number of detect_providers calls awaited at once.
MaxDetect == 2

\* Largest number of sessions selected when an export starts.
MaxRunSessions == 2

\* Largest number of sessions of one run that get a filename.
MaxNamed == 3

\* Largest number of daily bars enumerated (besides the 400-slot scenario).
MaxCount == 24

\* Largest number of edited files of a card.
MaxFiles == 2

\* Number of interaction cards on the board.
MaxCards == 3

\* Largest scroll offset of the board.
MaxScroll == 1

----------------------------------------------------------------------------
(* Small helpers *)

Last(s) == s[Len(s)]

Range(s) == {s[k] : k \in 1..Len(s)}

Max(a, b) == IF a >= b THEN a ELSE b

Abs(a) == IF a >= 0 THEN a ELSE 0 - a

\* Math.ceil(a / b) for positive integers
CeilDiv(a, b) == (a + b - 1) \div b

----------------------------------------------------------------------------
(* ContributionGrid: layout constants and selectLabelIndices *)

BAR_WIDTH == 14

BAR_GAP == 3

SLOT_WIDTH == BAR_WIDTH + BAR_GAP

MIN_LABEL_GAP_PX == 44

\* A plausible slip: Math.floor in place of Math.ceil.
minSlotsFloor == MIN_LABEL_GAP_PX \div SLOT_WIDTH

\* const minSlots = Math.ceil(MIN_LABEL_GAP_PX / SLOT_WIDTH)
minSlots == CeilDiv(MIN_LABEL_GAP_PX, SLOT_WIDTH)

\* Math.max(2, Math.floor(minSlots * 0.55)): the relaxed threshold of the
\* final label (0.55 = 55/100; minSlots * 0.55 is not within rounding distance
\* of an integer for the slot widths used, so integer arithmetic agrees).
finalThreshold == Max(2, (minSlots * 55) \div 100)

\* The slot counts the grid is rendered with: every count up to MaxCount and
\* the 400-day scenario.
Counts == (0..MaxCount) \cup {400}

LabelInit ==
    /\ count \in Counts
    /\ indices = <<>>
    /\ i = 0
    /\ lpc = "call"

\* if (count === 0) return []; if (count === 1) return [0];
\* const indices = [0]; for (let i = 1; ...
selectLabelIndices ==
    /\ lpc = "call"
    /\ IF count = 0 THEN indices' = <<>> /\ lpc' = "done"
       ELSE IF count = 1 THEN indices' = <<0>> /\ lpc' = "done"
       ELSE indices' = <<0>> /\ lpc' = "loop"
    /\ i' = 1
    /\ UNCHANGED <<count, matchVars, boardVars, restVars>>

\* for (...; i < count - 1; i++) {
\*   const last = indices[indices.length - 1] ?? 0;
\*   if (i - last >= minSlots) indices.push(i);
\* }
scanInterior ==
    /\ lpc = "loop"
    /\ IF i < count - 1
       THEN /\ indices' = IF i - Last(indices) >= minSlots
                          THEN Append(indices, i)
                          ELSE indices
            /\ i' = i + 1
            /\ lpc' = "loop"
       ELSE /\ lpc' = "tail"
            /\ UNCHANGED <<indices, i>>
    /\ UNCHANGED <<count, matchVars, boardVars, restVars>>

\* const last = indices[indices.length - 1] ?? 0; const lastIdx = count - 1;
\* if (lastIdx > last && lastIdx - last >= Math.max(2, ...)) indices.push(lastIdx);
\* return indices;
pushLast ==
    /\ lpc = "tail"
    /\ LET last == Last(indices)
           lastIdx == count - 1
       IN  indices' = IF lastIdx > last /\ lastIdx - last >= finalThreshold
                      THEN Append(indices, lastIdx)
                      ELSE indices
    /\ lpc' = "done"
    /\ UNCHANGED <<count, i, matchVars, boardVars, restVars>>

LabelNext == selectLabelIndices \/ scanInterior \/ pushLast

----------------------------------------------------------------------------
(* matchesBrush.  A JavaScript string is the sequence of its characters, so  *)
(* that includes and endsWith are computed, not assumed.                     *)

\* brush === null
NULL == [null |-> TRUE]

\* card.model === undefined: a value that is no string of characters
UNDEFINED == <<"undefined">>

S_empty == <<>>
S_o == <<"o">>
S_opus == <<"o", "p", "u", "s">>
S_pus == <<"p", "u", "s">>
S_gpt == <<"g", "p", "t">>
S_error == <<"e", "r", "r", "o", "r">>
S_cancelled == <<"c", "a", "n", "c", "e", "l", "l", "e", "d">>
S_commit == <<"c", "o", "m", "m", "i", "t">>
S_ok == <<"o", "k">>
S_code == <<"c", "o", "d", "e">>
S_git == <<"g", "i", "t">>
S_user == <<"u", "s", "e", "r">>
S_assistant == <<"a", "s", "s", "i", "s", "t", "a", "n", "t">>
S_a_md == <<"a", ".", "m", "d">>
S_xy_a_md == <<"/", "x", "/", "y", "/", "a", ".", "m", "d">>
S_a_mdx == <<"a", ".", "m", "d", "x">>
S_b_ts == <<"b", ".", "t", "s">>

\* String.prototype.includes
includes(s, sub) ==
    \E k \in 0..(Len(s) - Len(sub)) : SubSeq(s, k + 1, k + Len(sub)) = sub

\* String.prototype.endsWith
endsWith(s, suffix) ==
    /\ Len(suffix) <= Len(s)
    /\ SubSeq(s, Len(s) - Len(suffix) + 1, Len(s)) = suffix

\* !!card.model: undefined and "" are falsy
truthy(str) == str # UNDEFINED /\ str # S_empty

\* A slip: the guard on card.model dropped ("".includes("") is true).
matchModelNoGuard(b, c) == c.model # UNDEFINED /\ includes(c.model, b.value)

\* case "model": return !!card.model && card.model.includes(brush.value);
matchModel(b, c) == truthy(c.model) /\ includes(c.model, b.value)

\* case "tool": return card.variant === brush.value;
matchTool(b, c) == c.variant = b.value

\* A slip: every status value reads isError.
matchStatusAllError(b, c) ==
    IF b.value \in {S_error, S_cancelled, S_commit} THEN c.isError ELSE FALSE

\* case "status": switch (brush.value) { ... default: return false; }
matchStatus(b, c) ==
    CASE b.value = S_error -> c.isError
      [] b.value = S_cancelled -> c.isCancelled
      [] b.value = S_commit -> c.isCommit
      [] OTHER -> FALSE

\* A slip: the exact comparison only (the code's comment: "Exact match for now").
matchFileExact(b, c) ==
    \E k \in 1..Len(c.editedFiles) : c.editedFiles[k] = b.value

\* case "file":
\*   return card.editedFiles.some(f => f === brush.value || f.endsWith(brush.value));
matchFile(b, c) ==
    \E k \in 1..Len(c.editedFiles) :
        \/ c.editedFiles[k] = b.value
        \/ endsWith(c.editedFiles[k], b.value)

\* A slip: an unknown type falls through to "match".
matchDefaultTrue(b, c) == TRUE

\* default: return false;
matchDefault(b, c) == FALSE

\* A slip: the null test inverted into "no brush matches nothing".
matchNullFalse(c) == FALSE

\* if (!brush) return true;
matchNull(c) == TRUE

matchesBrush(b, c) ==
    IF b = NULL THEN matchNull(c)
    ELSE CASE b.type = "model" -> matchModel(b, c)
           [] b.type = "tool" -> matchTool(b, c)
           [] b.type = "status" -> matchStatus(b, c)
           [] b.type = "file" -> matchFile(b, c)
           [] OTHER -> matchDefault(b, c)

\* The brush types a caller can pass: the four of ActiveBrush and "role", which
\* InteractionCardProps.onHover also admits.
BrushTypes == {"model", "tool", "status", "file", "role"}

BrushValues ==
    {S_empty, S_o, S_opus, S_pus, S_error, S_cancelled, S_commit, S_ok,
     S_code, S_user, S_a_md, S_xy_a_md}

Brushes == {NULL} \cup [type : BrushTypes, value : BrushValues]

Files == {S_a_md, S_xy_a_md, S_a_mdx, S_b_ts}

FileLists == UNION {[1..n -> Files] : n \in 0..MaxFiles}

Cards ==
    [model : {UNDEFINED, S_empty, S_opus, S_gpt},
     variant : {S_code, S_git},
     isError : BOOLEAN,
     isCancelled : BOOLEAN,
     isCommit : BOOLEAN,
     editedFiles : FileLists]

MatchInit ==
    /\ brush \in Brushes
    /\ card \in Cards
    /\ matched = FALSE
    /\ mpc = "call"

MatchesBrush ==
    /\ mpc = "call"
    /\ matched' = matchesBrush(brush, card)
    /\ mpc' = "done"
    /\ UNCHANGED <<brush, card, labelVars, boardVars, restVars>>

MatchNext == MatchesBrush

----------------------------------------------------------------------------
(* The session board: InteractionCard, and the board state its callbacks    *)
(* reach (brush, zoom, expansion).                                          *)

\* editedMdFile === null
NOFILE == <<"null">>

\* The messages laid out on the board.  Of a ClaudeMessage the card reads:
\* role (message.role || message.type), hasContent (content.trim() is not
\* empty), isTool (!!message.toolUse), isError and editedMdFile (the useMemo
\* of InteractionCard); the remaining fields are its BrushableCard attributes.
MessagePool ==
    << [role |-> S_user, hasContent |-> TRUE, isTool |-> FALSE, isError |-> FALSE,
        editedMdFile |-> NOFILE, model |-> UNDEFINED, variant |-> S_user,
        isCancelled |-> FALSE, isCommit |-> FALSE, editedFiles |-> <<>>],
       [role |-> S_assistant, hasContent |-> FALSE, isTool |-> TRUE, isError |-> FALSE,
        editedMdFile |-> S_a_md, model |-> S_opus, variant |-> S_code,
        isCancelled |-> FALSE, isCommit |-> FALSE, editedFiles |-> <<S_xy_a_md>>],
       [role |-> S_assistant, hasContent |-> FALSE, isTool |-> FALSE, isError |-> FALSE,
        editedMdFile |-> NOFILE, model |-> S_opus, variant |-> S_assistant,
        isCancelled |-> FALSE, isCommit |-> FALSE, editedFiles |-> <<>>],
       [role |-> S_assistant, hasContent |-> TRUE, isTool |-> FALSE, isError |-> TRUE,
        editedMdFile |-> NOFILE, model |-> S_gpt, variant |-> S_assistant,
        isCancelled |-> TRUE, isCommit |-> FALSE, editedFiles |-> <<>>] >>

CardIds == 1..MaxCards

Msg(id) == MessagePool[((id - 1) % Len(MessagePool)) + 1]

ZoomLevels == {0, 1, 2}

\* The BrushableCard of a message.
brushable(m) ==
    [model |-> m.model, variant |-> m.variant, isError |-> m.isError,
     isCancelled |-> m.isCancelled, isCommit |-> m.isCommit,
     editedFiles |-> m.editedFiles]

\* The isActive prop the board passes to the card of message id.
isActive(id) == matchesBrush(activeBrush, brushable(Msg(id)))

\* The isExpanded prop the board passes to the card of message id.
isExpanded(id) == expanded = id

\* const baseClasses = clsx(..., !isActive && "opacity-20 scale-[0.98] grayscale
\* blur-[0.5px]", isActive && "hover:border-accent ...", isError && ...)
baseClasses(active, isError) ==
    {"relative", "cursor-pointer", "select-none"}
    \cup (IF ~active THEN {"opacity-20", "scale-[0.98]", "grayscale", "blur-[0.5px]"}
          ELSE {})
    \cup (IF active THEN {"hover:border-accent", "hover:shadow-lg", "hover:scale-[1.02]"}
          ELSE {})
    \cup (IF isError THEN {"bg-destructive/10"} ELSE {})

\* return null
NOTHING ==
    [rendered |-> FALSE, classes |-> {}, onClick |-> FALSE, onMouseEnter |-> FALSE,
     onMouseLeave |-> FALSE, badge |-> FALSE, popover |-> FALSE]

\* A slip: the popover is part of the element at every zoom level.
cardElementAnyZoom(m, z, active, isExp, hasRect) ==
    [rendered |-> TRUE,
     classes |-> baseClasses(active, m.isError),
     onClick |-> TRUE,
     onMouseEnter |-> TRUE,
     onMouseLeave |-> TRUE,
     badge |-> z # 0 /\ m.editedMdFile # NOFILE,
     popover |-> isExp /\ hasRect]

\* The element InteractionCard returns at zoom level z: its classes, the
\* handlers attached to it, whether the file badge and the ExpandedCard
\* popover are part of it (ExpandedCard returns null without a triggerRect).
cardElement(m, z, active, isExp, hasRect) ==
    [rendered |-> TRUE,
     classes |-> baseClasses(active, m.isError),
     onClick |-> TRUE,
     onMouseEnter |-> TRUE,
     onMouseLeave |-> TRUE,
     badge |-> z # 0 /\ m.editedMdFile # NOFILE,
     popover |-> z # 0 /\ isExp /\ hasRect]

\* A slip: brushing as a hard filter, a card outside the brush is not rendered.
InteractionCardFiltered(m, z, active, isExp, hasRect) ==
    IF (~m.hasContent /\ ~m.isTool) \/ ~active
    THEN NOTHING
    ELSE cardElement(m, z, active, isExp, hasRect)

\* if (!content.trim() && !isTool) return null; ... return (<div .../>)
InteractionCard(m, z, active, isExp, hasRect) ==
    IF ~m.hasContent /\ ~m.isTool
    THEN NOTHING
    ELSE cardElement(m, z, active, isExp, hasRect)

\* What the board shows for message id in the current state.
Rendered(id) ==
    InteractionCard(Msg(id), zoomLevel, isActive(id), isExpanded(id),
                    id \in triggerRect)

\* An ExpandedCard is on screen: its backdrop (fixed inset-0) covers the board.
PopoverOpen == \E id \in CardIds : Rendered(id).popover

\* The click handlers of ExpandedCard, by element: whether the handler calls
\* e.stopPropagation() and whether it calls onClose.
\*   backdrop:     onClick={(e) => { e.stopPropagation(); onClose(); }}
\*   popover div:  onClick={(e) => e.stopPropagation()}
\*   close button: onClick={onClose}
\* A slip: the backdrop closes without stopping the event.
popoverHandlerNoStop(element) ==
    CASE element = "backdrop" -> [stop |-> FALSE, close |-> TRUE]
      [] element = "popover" -> [stop |-> TRUE, close |-> FALSE]
      [] element = "closeButton" -> [stop |-> FALSE, close |-> TRUE]

popoverHandler(element) ==
    CASE element = "backdrop" -> [stop |-> TRUE, close |-> TRUE]
      [] element = "popover" -> [stop |-> TRUE, close |-> FALSE]
      [] element = "closeButton" -> [stop |-> FALSE, close |-> TRUE]

\* The elements with a click handler from the clicked element up to the root
\* of ExpandedCard: the backdrop and the popover div are siblings, the close
\* button is inside the popover div.
popoverPath(target) ==
    CASE target = "backdrop" -> <<"backdrop">>
      [] target = "body" -> <<"popover">>
      [] target = "closeButton" -> <<"closeButton", "popover">>

\* The event bubbles along the path until a handler stops it: the number of
\* onClose calls, the handlers that ran, and whether the event left
\* ExpandedCard for the ancestors of the card.
RECURSIVE dispatch(_)
dispatch(path) ==
    IF path = <<>>
    THEN [onClose |-> 0, ran |-> {}, propagated |-> TRUE]
    ELSE LET h == popoverHandler(Head(path))
             calls == IF h.close THEN 1 ELSE 0
         IN  IF h.stop
             THEN [onClose |-> calls, ran |-> {Head(path)}, propagated |-> FALSE]
             ELSE LET rest == dispatch(Tail(path))
                  IN  [onClose |-> calls + rest.onClose,
                       ran |-> {Head(path)} \cup rest.ran,
                       propagated |-> rest.propagated]

NoPopoverClick ==
    [target |-> "none", onClose |-> 0, ran |-> {}, propagated |-> FALSE,
     closed |-> FALSE]

\* The board's brush setter; the history variable records the call.
setActiveBrush(b) ==
    /\ activeBrush' = b
    /\ lastSetterArg' = b

\* The onHover and onLeave props the board passes to every card.
onHover(type, value) == setActiveBrush([type |-> type, value |-> value])

onLeave == setActiveBrush(NULL)

\* The onClick prop the board passes to the card of message id: toggle its
\* expansion.  The card's effect on [isExpanded] then stores the rectangle:
\*   if (isExpanded && cardRef.current) setTriggerRect(getBoundingClientRect())
onClick(id) ==
    /\ expanded' = IF expanded = id THEN 0 ELSE id
    /\ triggerRect' = IF expanded # id /\ Rendered(id).rendered
                      THEN triggerRect \cup {id}
                      ELSE triggerRect

\* A slip: the card writes the brush itself instead of calling onLeave.
cardMouseLeaveDirect(id) ==
    /\ activeBrush' = NULL
    /\ UNCHANGED lastSetterArg

\* onMouseEnter={() => onHover?.('role', role)}
cardMouseEnter(id) == onHover("role", Msg(id).role)

\* onMouseLeave={onLeave}
cardMouseLeave(id) == onLeave

\* The badge: onMouseEnter={(e) => { e.stopPropagation(); onHover?.('file', editedMdFile); }}
badgeMouseEnter(id) == onHover("file", Msg(id).editedMdFile)

BoardInit ==
    /\ activeBrush = NULL
    /\ lastSetterArg = NULL
    /\ hovered = {}
    /\ zoomLevel \in ZoomLevels
    /\ expanded = 0
    /\ triggerRect = {}
    /\ lastClick = [id |-> 0, active |-> FALSE, invoked |-> FALSE]
    /\ lastPopoverClick = NoPopoverClick

\* The pointer enters the card of message id.
MouseEnterCard(id) ==
    /\ Rendered(id).rendered
    /\ ~PopoverOpen
    /\ id \notin hovered
    /\ hovered' = hovered \cup {id}
    /\ IF Rendered(id).onMouseEnter
       THEN cardMouseEnter(id)
       ELSE UNCHANGED <<activeBrush, lastSetterArg>>
    /\ UNCHANGED <<zoomLevel, expanded, triggerRect, lastClick, lastPopoverClick,
                   labelVars, matchVars, restVars>>

\* The pointer leaves the card of message id.
MouseLeaveCard(id) ==
    /\ id \in hovered
    /\ hovered' = hovered \ {id}
    /\ IF Rendered(id).onMouseLeave
       THEN cardMouseLeave(id)
       ELSE UNCHANGED <<activeBrush, lastSetterArg>>
    /\ UNCHANGED <<zoomLevel, expanded, triggerRect, lastClick, lastPopoverClick,
                   labelVars, matchVars, restVars>>

\* The pointer, inside the card of message id, enters its file badge.
MouseEnterBadge(id) ==
    /\ Rendered(id).badge
    /\ ~PopoverOpen
    /\ id \in hovered
    /\ badgeMouseEnter(id)
    /\ UNCHANGED <<hovered, zoomLevel, expanded, triggerRect, lastClick,
                   lastPopoverClick, labelVars, matchVars, restVars>>

\* A click on the card element of message id (no backdrop in the way).
ClickCard(id) ==
    /\ Rendered(id).rendered
    /\ ~PopoverOpen
    /\ lastClick' = [id |-> id, active |-> isActive(id),
                     invoked |-> Rendered(id).onClick]
    /\ IF Rendered(id).onClick
       THEN onClick(id)
       ELSE UNCHANGED <<expanded, triggerRect>>
    /\ UNCHANGED <<activeBrush, lastSetterArg, hovered, zoomLevel, lastPopoverClick,
                   labelVars, matchVars, restVars>>

\* A click on an element of the open popover: the handlers on the way up run,
\* every onClose call toggles the expansion (onClose={() => onClick?.()}), and
\* the history variable records what ran.
clickPopover(target) ==
    LET d == dispatch(popoverPath(target))
    IN  /\ IF d.onClose % 2 = 1
           THEN onClick(expanded)
           ELSE UNCHANGED <<expanded, triggerRect>>
        /\ lastPopoverClick' =
               [target |-> target, onClose |-> d.onClose, ran |-> d.ran,
                propagated |-> d.propagated, closed |-> expanded' = 0]
        /\ UNCHANGED <<activeBrush, lastSetterArg, hovered, zoomLevel, lastClick,
                       labelVars, matchVars, restVars>>

\* A click on the backdrop of the open popover.
ClickBackdrop ==
    /\ PopoverOpen
    /\ clickPopover("backdrop")

\* A click on the text of the open popover.
ClickPopoverBody ==
    /\ PopoverOpen
    /\ clickPopover("body")

\* A click on the X button of the open popover.
ClickCloseButton ==
    /\ PopoverOpen
    /\ clickPopover("closeButton")

\* The zoom setting changes.
SetZoom(z) ==
    /\ z # zoomLevel
    /\ zoomLevel' = z
    /\ UNCHANGED <<activeBrush, lastSetterArg, hovered, expanded, triggerRect,
                   lastClick, lastPopoverClick, labelVars, matchVars, restVars>>

BoardNext ==
    \/ \E id \in CardIds : MouseEnterCard(id)
    \/ \E id \in CardIds : MouseLeaveCard(id)
    \/ \E id \in CardIds : MouseEnterBadge(id)
    \/ \E id \in CardIds : ClickCard(id)
    \/ ClickBackdrop
    \/ ClickPopoverBody
    \/ ClickCloseButton
    \/ \E z \in ZoomLevels : SetZoom(z)

----------------------------------------------------------------------------
(* NavigationController: deep link from the board to an event of the detail  *)
(* view, and back.                                                           *)

\* savedBoardView: nothing saved
NOVIEW == [none |-> TRUE]

Sessions == {1, 2}

EventIds == {1, 2}

BoardViews == [scroll : 0..MaxScroll, zoom : ZoomLevels, pinned : SUBSET Sessions]

\* The view of a freshly mounted board.
DefaultView == [scroll |-> 0, zoom |-> 1, pinned |-> {}]

NoJump ==
    [target |-> 0, found |-> FALSE, scrolled |-> FALSE, highlighted |-> FALSE,
     error |-> FALSE, stale |-> FALSE, stateAfter |-> "Idle", targetAfter |-> 0]

NavInit ==
    /\ navState = "Idle"
    /\ targetEventId = 0
    /\ savedBoardView = NOVIEW
    /\ boardView = DefaultView
    /\ screen = "board"
    /\ session = 1
    /\ loaded = EventIds
    /\ jumpSession = 0
    /\ preJumpView = NOVIEW
    /\ restored = FALSE
    /\ lastJump = NoJump

\* The user scrolls, zooms or pins on the mounted board.
ChangeBoardView(v) ==
    /\ screen = "board"
    /\ navState = "Idle"
    /\ v # boardView
    /\ boardView' = v
    /\ restored' = FALSE
    /\ preJumpView' = NOVIEW
    /\ UNCHANGED <<navState, targetEventId, savedBoardView, screen, session, loaded,
                   jumpSession, lastJump>>
    /\ UNCHANGED <<labelVars, matchVars, boardVars, popVars, gridVars, exportVars, lateVars>>

\* A slip: the snapshot leaves the pinned sessions out.
captureViewNoPins(v) == [v EXCEPT !.pinned = {}]

\* The snapshot taken when leaving the board: scroll offset, zoom, pinned set.
captureView(v) == v

\* Idle -> PendingJump: a link on a compact card is activated; the board view
\* is saved and the board gives way to the detail view.
ActivateLink(e) ==
    /\ screen = "board"
    /\ navState = "Idle"
    /\ e \in loaded
    /\ navState' = "PendingJump"
    /\ targetEventId' = e
    /\ savedBoardView' = captureView(boardView)
    /\ preJumpView' = boardView
    /\ boardView' = DefaultView
    /\ screen' = "detail"
    /\ jumpSession' = session
    /\ restored' = FALSE
    /\ UNCHANGED <<session, loaded, lastJump>>
    /\ UNCHANGED <<labelVars, matchVars, boardVars, popVars, gridVars, exportVars, lateVars>>

\* The session is reloaded with other data while the detail view is coming up.
ReloadSession(evs) ==
    /\ screen = "detail"
    /\ evs # loaded
    /\ loaded' = evs
    /\ UNCHANGED <<navState, targetEventId, savedBoardView, boardView, screen,
                   session, jumpSession, preJumpView, restored, lastJump>>
    /\ UNCHANGED <<labelVars, matchVars, boardVars, popVars, gridVars, exportVars, lateVars>>

\* A slip: the lookup of a missing target raises instead of giving up.
consumeJumpThrowing(target, evs, stale) ==
    [target |-> target, found |-> target \in evs, scrolled |-> target \in evs,
     highlighted |-> target \in evs, error |-> target \notin evs, stale |-> stale,
     stateAfter |-> IF target \in evs THEN "Idle" ELSE "PendingJump",
     targetAfter |-> IF target \in evs THEN 0 ELSE target]

\* What the mounted detail view does with the pending target: scroll to it and
\* flash it when it is in the loaded set, nothing otherwise; the target is
\* cleared and the state is Idle either way.
consumeJump(target, evs, stale) ==
    [target |-> target, found |-> target \in evs, scrolled |-> target \in evs,
     highlighted |-> target \in evs, error |-> FALSE, stale |-> stale,
     stateAfter |-> "Idle", targetAfter |-> 0]

\* PendingJump -> Idle: the detail view has mounted.
DetailMounted ==
    /\ navState = "PendingJump"
    /\ lastJump' = consumeJump(targetEventId, loaded,
                               jumpSession # session \/ screen # "detail")
    /\ navState' = lastJump'.stateAfter
    /\ targetEventId' = lastJump'.targetAfter
    /\ UNCHANGED <<savedBoardView, boardView, screen, session, loaded, jumpSession,
                   preJumpView, restored>>
    /\ UNCHANGED <<labelVars, matchVars, boardVars, popVars, gridVars, exportVars, lateVars>>

\* A slip: the pending jump survives the cancellation.
discardPendingKeep(state, target) == <<state, target>>

\* Cancellation: a pending jump is dropped, <<state, target>> after it.
discardPending(state, target) ==
    IF state = "PendingJump" THEN <<"Idle", 0>> ELSE <<state, target>>

\* Another session is selected: the detail view is replaced.
SwitchSession(s) ==
    /\ screen # "closed"
    /\ navState # "Returning"
    /\ s # session
    /\ session' = s
    /\ loaded' = EventIds
    /\ navState' = discardPending(navState, targetEventId)[1]
    /\ targetEventId' = discardPending(navState, targetEventId)[2]
    /\ UNCHANGED <<savedBoardView, boardView, screen, jumpSession, preJumpView,
                   restored, lastJump>>
    /\ UNCHANGED <<labelVars, matchVars, boardVars, popVars, gridVars, exportVars, lateVars>>

\* The board (and the detail view opened from it) is closed.
CloseBoard ==
    /\ screen # "closed"
    /\ navState # "Returning"
    /\ screen' = "closed"
    /\ navState' = discardPending(navState, targetEventId)[1]
    /\ targetEventId' = discardPending(navState, targetEventId)[2]
    /\ savedBoardView' = NOVIEW
    /\ boardView' = DefaultView
    /\ restored' = FALSE
    /\ preJumpView' = NOVIEW
    /\ UNCHANGED <<session, loaded, jumpSession, lastJump>>
    /\ UNCHANGED <<labelVars, matchVars, boardVars, popVars, gridVars, exportVars, lateVars>>

\* The board is opened again, with the default view.
OpenBoard ==
    /\ screen = "closed"
    /\ navState = "Idle"
    /\ screen' = "board"
    /\ UNCHANGED <<navState, targetEventId, savedBoardView, boardView, session,
                   loaded, jumpSession, preJumpView, restored, lastJump>>
    /\ UNCHANGED <<labelVars, matchVars, boardVars, popVars, gridVars, exportVars, lateVars>>

\* Idle -> Returning: the explicit back action in the detail view.
NavigateBack ==
    /\ screen = "detail"
    /\ navState = "Idle"
    /\ navState' = "Returning"
    /\ UNCHANGED <<targetEventId, savedBoardView, boardView, screen, session, loaded,
                   jumpSession, preJumpView, restored, lastJump>>
    /\ UNCHANGED <<labelVars, matchVars, boardVars, popVars, gridVars, exportVars, lateVars>>

\* A slip: the board is re-mounted with the saved scroll offset only.
applySavedViewScrollOnly(saved) ==
    IF saved = NOVIEW THEN DefaultView
    ELSE [DefaultView EXCEPT !.scroll = saved.scroll]

\* The view the re-mounted board takes from savedBoardView.
applySavedView(saved) == IF saved = NOVIEW THEN DefaultView ELSE saved

\* Returning -> Idle: the board is re-mounted, savedBoardView applied and cleared.
RestoreBoard ==
    /\ navState = "Returning"
    /\ screen' = "board"
    /\ boardView' = applySavedView(savedBoardView)
    /\ savedBoardView' = NOVIEW
    /\ navState' = "Idle"
    /\ restored' = (savedBoardView # NOVIEW)
    /\ UNCHANGED <<targetEventId, session, loaded, jumpSession, preJumpView, lastJump>>
    /\ UNCHANGED <<labelVars, matchVars, boardVars, popVars, gridVars, exportVars, lateVars>>

NavNext ==
    \/ \E v \in BoardViews : ChangeBoardView(v)
    \/ \E e \in EventIds : ActivateLink(e)
    \/ \E evs \in SUBSET EventIds : ReloadSession(evs)
    \/ DetailMounted
    \/ \E s \in Sessions : SwitchSession(s)
    \/ CloseBoard
    \/ OpenBoard
    \/ NavigateBack
    \/ RestoreBoard

NavIdle == NavInit

----------------------------------------------------------------------------
(* ExpandedCard: the placement of the popover next to its trigger card *)

\* triggerRect === null
NORECT == [none |-> TRUE]

\* ExpandedCard not rendered
NOPOS == [none |-> TRUE]

cardWidth == 480

gap == 12

Min(a, b) == IF a <= b THEN a ELSE b

\* A slip: the flip test made with >= (a popover that just fits is flipped).
popoverLeftEager(rect, windowWidth) ==
    IF rect.right + gap + cardWidth >= windowWidth - 20
    THEN rect.left - cardWidth - gap
    ELSE rect.right + gap

\* let left = triggerRect.right + gap;
\* if (left + cardWidth > windowWidth - 20) left = triggerRect.left - cardWidth - gap;
popoverLeft(rect, windowWidth) ==
    IF rect.right + gap + cardWidth > windowWidth - 20
    THEN rect.left - cardWidth - gap
    ELSE rect.right + gap

\* const maxHeight = Math.min(600, windowHeight - 40);
popoverMaxHeight(windowHeight) == Min(600, windowHeight - 40)

\* A slip: the final clamp to the top margin left out.
popoverTopNoClamp(rect, windowHeight) ==
    IF rect.top + popoverMaxHeight(windowHeight) > windowHeight - 20
    THEN windowHeight - popoverMaxHeight(windowHeight) - 20
    ELSE rect.top

\* let top = triggerRect.top;
\* if (top + maxHeight > windowHeight - 20) top = Math.max(20, windowHeight - maxHeight - 20);
\* if (top < 20) top = 20;
popoverTop(rect, windowHeight) ==
    LET maxHeight == popoverMaxHeight(windowHeight)
        top1 == IF rect.top + maxHeight > windowHeight - 20
                THEN Max(20, windowHeight - maxHeight - 20)
                ELSE rect.top
    IN  IF top1 < 20 THEN 20 ELSE top1

\* style={{ left, top, maxHeight }} of the popover
popoverStyle(rect, win) ==
    [left |-> popoverLeft(rect, win.w),
     top |-> popoverTop(rect, win.h),
     maxHeight |-> popoverMaxHeight(win.h)]

\* The popover as rendered: its style, and the rectangle and viewport the
\* render read.
renderPopover(rect, win) ==
    [style |-> popoverStyle(rect, win), rect |-> rect, win |-> win]

\* The places a trigger card can be on screen (200px wide).
TriggerRects ==
    {[left |-> l, right |-> l + 200, top |-> t] :
        l \in {0, 500, 900}, t \in {0 - 100, 20, 100, 900}}

\* The viewport sizes.
Viewports == [w : {711, 712, 1400}, h : {30, 640, 1000}]

PopInit ==
    /\ pRect \in TriggerRects
    /\ pWin \in Viewports
    /\ pExpanded = FALSE
    /\ pStored = NORECT
    /\ pPos = NOPOS

\* A slip: the rectangle is stored once and never measured again.
measureOnce(stored, rect) == IF stored = NORECT THEN rect ELSE stored

\* useEffect(() => { if (isExpanded && cardRef.current)
\*     setTriggerRect(cardRef.current.getBoundingClientRect()); }, [isExpanded])
measure(stored, rect) == rect

\* isExpanded becomes true: the effect stores the trigger's rectangle and the
\* card renders the popover from it.
Expand ==
    /\ ~pExpanded
    /\ pExpanded' = TRUE
    /\ pStored' = measure(pStored, pRect)
    /\ pPos' = renderPopover(pStored', pWin)
    /\ UNCHANGED <<pRect, pWin>>
    /\ UNCHANGED <<labelVars, matchVars, boardVars, navVars, gridVars, exportVars, lateVars>>

\* isExpanded becomes false: {isExpanded && <ExpandedCard .../>} renders nothing;
\* the effect does not run its body and triggerRect keeps its value.
Collapse ==
    /\ pExpanded
    /\ pExpanded' = FALSE
    /\ pPos' = NOPOS
    /\ UNCHANGED <<pRect, pWin, pStored>>
    /\ UNCHANGED <<labelVars, matchVars, boardVars, navVars, gridVars, exportVars, lateVars>>

\* The lane scrolls: the trigger moves on screen; no state of the card changes.
ScrollTrigger(rect) ==
    /\ rect # pRect
    /\ pRect' = rect
    /\ UNCHANGED <<pWin, pExpanded, pStored, pPos>>
    /\ UNCHANGED <<labelVars, matchVars, boardVars, navVars, gridVars, exportVars, lateVars>>

\* The window is resized; no state of the card changes.
ResizeWindow(win) ==
    /\ win # pWin
    /\ pWin' = win
    /\ UNCHANGED <<pRect, pExpanded, pStored, pPos>>
    /\ UNCHANGED <<labelVars, matchVars, boardVars, navVars, gridVars, exportVars, lateVars>>

\* The card renders again (a prop changed, such as isActive or zoomLevel, which
\* may also move the trigger): ExpandedCard reads the triggerRect state and
\* the window size of the moment.
Rerender(rect) ==
    /\ pExpanded
    /\ pRect' = rect
    /\ pPos' = renderPopover(pStored, pWin)
    /\ UNCHANGED <<pWin, pExpanded, pStored>>
    /\ UNCHANGED <<labelVars, matchVars, boardVars, navVars, gridVars, exportVars, lateVars>>

PopNext ==
    \/ Expand
    \/ Collapse
    \/ \E rect \in TriggerRects : ScrollTrigger(rect)
    \/ \E win \in Viewports : ResizeWindow(win)
    \/ \E rect \in TriggerRects : Rerender(rect)

PopIdle ==
    /\ pRect = [left |-> 0, right |-> 200, top |-> 20]
    /\ pWin = [w |-> 1400, h |-> 1000]
    /\ pExpanded = FALSE
    /\ pStored = NORECT
    /\ pPos = NOPOS

----------------------------------------------------------------------------
(* ContributionGrid: maxCount and the intensity of each daily bar *)

\* The lists of daily bars enumerated: every length up to MaxBars, every
\* sessionCount up to MaxSessions.
BarLists == UNION {[1..n -> 0..MaxSessions] : n \in 0..MaxBars}

\* A slip: the division without the maxCount > 0 guard.
intensityUnguarded(sessionCount, max) == [num |-> sessionCount, den |-> max]

\* const intensity = maxCount > 0 ? bar.sessionCount / maxCount : 0;
\* The quotient is kept as a fraction num/den; den = 0 is a division by zero.
intensity(sessionCount, max) ==
    IF max > 0
    THEN [num |-> sessionCount, den |-> max]
    ELSE [num |-> 0, den |-> 1]

\* The component is rendered with a list of bars; the useMemo starts: let max = 0
GridInit ==
    /\ dailyBars \in BarLists
    /\ maxCount = 0
    /\ gi = 0
    /\ intensities = <<>>
    /\ gpc = "max"

\* for (const bar of dailyBars) { if (bar.sessionCount > max) max = bar.sessionCount; }
scanMax ==
    /\ gpc = "max"
    /\ gi < Len(dailyBars)
    /\ gi' = gi + 1
    /\ maxCount' = IF dailyBars[gi + 1] > maxCount THEN dailyBars[gi + 1] ELSE maxCount
    /\ UNCHANGED <<dailyBars, intensities, gpc>>
    /\ UNCHANGED <<labelVars, matchVars, boardVars, navVars, popVars, exportVars, lateVars>>

\* return max;  then  if (dailyBars.length === 0) return (<div>no activity</div>)
returnMax ==
    /\ gpc = "max"
    /\ gi = Len(dailyBars)
    /\ gi' = 0
    /\ gpc' = IF Len(dailyBars) = 0 THEN "empty" ELSE "bars"
    /\ UNCHANGED <<dailyBars, maxCount, intensities>>
    /\ UNCHANGED <<labelVars, matchVars, boardVars, navVars, popVars, exportVars, lateVars>>

\* dailyBars.map((bar, idx) => { const intensity = ...; ... })
renderBar ==
    /\ gpc = "bars"
    /\ gi < Len(dailyBars)
    /\ intensities' = Append(intensities, intensity(dailyBars[gi + 1], maxCount))
    /\ gi' = gi + 1
    /\ gpc' = IF gi + 1 = Len(dailyBars) THEN "done" ELSE "bars"
    /\ UNCHANGED <<dailyBars, maxCount>>
    /\ UNCHANGED <<labelVars, matchVars, boardVars, navVars, popVars, exportVars, lateVars>>

GridNext ==
    \/ scanMax
    \/ returnMax
    \/ renderBar

GridIdle ==
    /\ dailyBars = <<>>
    /\ maxCount = 0
    /\ gi = 0
    /\ intensities = <<>>
    /\ gpc = "empty"

----------------------------------------------------------------------------
(* The export slice of the store: the selection of sessions to export *)

\* exportProgress: null
NOPROGRESS == [null |-> TRUE]

\* The session file paths, by number.
FilePaths == 1..MaxPaths

\* Two distinct ExportSessionInfo values.
Infos == {"info1", "info2"}

\* The { current, total } values given to setExportProgress.
Progresses ==
    {NOPROGRESS} \cup {[current |-> c, total |-> 1] : c \in {0, 1}}

\* A Map is the sequence of its entries in insertion order.
\* Map.prototype.has
mapHas(map, key) == \E j \in 1..Len(map) : map[j].key = key

\* Map.prototype.get, of a key the map has
mapGet(map, key) == map[CHOOSE j \in 1..Len(map) : map[j].key = key].info

\* Map.prototype.delete
mapDelete(map, key) == SelectSeq(map, LAMBDA entry : entry.key # key)

\* Map.prototype.set: a new key is appended, a present key keeps its place.
mapSet(map, key, info) ==
    IF mapHas(map, key)
    THEN [j \in 1..Len(map) |->
            IF map[j].key = key THEN [key |-> key, info |-> info] ELSE map[j]]
    ELSE Append(map, [key |-> key, info |-> info])

\* Array.from(map.keys()) as a set
mapKeys(map) == {map[j].key : j \in 1..Len(map)}

\* A slip: the toggle always sets the entry and never deletes it.
toggleExportSessionAlwaysSet(selected, filePath, info) ==
    mapSet(selected, filePath, info)

\* const next = new Map(state.selectedExportSessions);
\* if (next.has(filePath)) next.delete(filePath); else next.set(filePath, info);
toggleExportSession(selected, filePath, info) ==
    IF mapHas(selected, filePath)
    THEN mapDelete(selected, filePath)
    ELSE mapSet(selected, filePath, info)

\* set({ selectedExportSessions: new Map() })
clearExportSelection == <<>>

\* The history keeps the latest two selection calls.
logCall(call) == <<call>> \o SubSeq(exportLog, 1, Min(Len(exportLog), 1))

\* initialExportState
ExportInit ==
    /\ selectedExportSessions = <<>>
    /\ isExporting = FALSE
    /\ exportProgress = NOPROGRESS
    /\ exportLog = <<>>

ToggleExportSession(filePath, info) ==
    /\ selectedExportSessions' =
          toggleExportSession(selectedExportSessions, filePath, info)
    /\ exportLog' = logCall([op |-> "toggle", filePath |-> filePath, info |-> info,
                             before |-> selectedExportSessions])
    /\ UNCHANGED <<isExporting, exportProgress>>
    /\ UNCHANGED <<labelVars, matchVars, boardVars, navVars, popVars, gridVars, lateVars>>

ClearExportSelection ==
    /\ selectedExportSessions' = clearExportSelection
    /\ exportLog' = logCall([op |-> "clear", filePath |-> 0, info |-> "none",
                             before |-> selectedExportSessions])
    /\ UNCHANGED <<isExporting, exportProgress>>
    /\ UNCHANGED <<labelVars, matchVars, boardVars, navVars, popVars, gridVars, lateVars>>

\* setIsExporting: (isExporting) => set({ isExporting })
SetIsExporting(exporting) ==
    /\ isExporting' = exporting
    /\ UNCHANGED <<selectedExportSessions, exportProgress, exportLog>>
    /\ UNCHANGED <<labelVars, matchVars, boardVars, navVars, popVars, gridVars, lateVars>>

\* setExportProgress: (exportProgress) => set({ exportProgress })
SetExportProgress(progress) ==
    /\ exportProgress' = progress
    /\ UNCHANGED <<selectedExportSessions, isExporting, exportLog>>
    /\ UNCHANGED <<labelVars, matchVars, boardVars, navVars, popVars, gridVars, lateVars>>

ExportNext ==
    \/ \E filePath \in FilePaths, info \in Infos : ToggleExportSession(filePath, info)
    \/ ClearExportSelection
    \/ \E exporting \in BOOLEAN : SetIsExporting(exporting)
    \/ \E progress \in Progresses : SetExportProgress(progress)

ExportIdle == ExportInit

----------------------------------------------------------------------------
(* useExportSessions: the filename of an exported session *)

\* The characters sanitizeFilename replaces: / \ : * ? " < > |
ForbiddenChars == {"/", "\\", ":", "*", "?", "\"", "<", ">", "|"}

\* String.prototype.slice(0, n)
sliceTo(str, n) == SubSeq(str, 1, Min(Len(str), n))

\* return name.replace(/[/\\:*?"<>|]/g, "_").slice(0, 80);
sanitizeFilename(name) ==
    sliceTo([j \in 1..Len(name) |->
                IF name[j] \in ForbiddenChars THEN "_" ELSE name[j]], 80)

\* projectPath.split(/[\\/]/).pop(): what follows the last / or \ of the path
lastSegment(path) ==
    LET seps == {j \in 1..Len(path) : path[j] \in {"/", "\\"}}
        from == IF seps = {} THEN 1
                ELSE (CHOOSE j \in seps : \A k \in seps : k <= j) + 1
    IN  SubSeq(path, from, Len(path))

\* The decimal numeral of a natural number, as a template literal prints it.
RECURSIVE numeral(_)
numeral(n) ==
    LET digit == <<"0", "1", "2", "3", "4", "5", "6", "7", "8", "9">>[(n % 10) + 1]
    IN  IF n < 10 THEN <<digit>> ELSE Append(numeral(n \div 10), digit)

\* function buildFilename(projectPath, sessionName, date, index)
buildFilename(projectPath, sessionName, date, index) ==
    LET projectSlug == sanitizeFilename(lastSegment(projectPath))
        dateSlug == sliceTo(date, 10)
        nameSlug == sanitizeFilename(sessionName)
        suffix == IF index > 0 THEN <<"_">> \o numeral(index + 1) ELSE <<>>
    IN  projectSlug \o <<"_">> \o dateSlug \o <<"_">> \o nameSlug \o suffix
            \o <<".", "m", "d">>

\* A slip: the first name is taken whether or not it is in use.
freeFilenameFirst(used, info, date, index) ==
    buildFilename(info.projectPath, info.sessionName, date, index)

\* let filename = buildFilename(.., 0); let collision = 1;
\* while (usedFilenames.has(filename)) filename = buildFilename(.., collision++);
RECURSIVE freeFilename(_, _, _, _)
freeFilename(used, info, date, index) ==
    LET filename == buildFilename(info.projectPath, info.sessionName, date, index)
    IN  IF filename \in used
        THEN freeFilename(used, info, date, index + 1)
        ELSE filename

\* A string of n copies of one character.
repeat(ch, n) == [j \in 1..n |-> ch]

S_proj == <<"/", "p", "r", "o", "j">>
S_a_proj == <<"C", ":", "\\", "a", "\\", "p", "r", "o", "j">>
S_x == <<"x">>
S_x_colon_2 == <<"x", ":", "2">>
S_long_y == repeat("n", 80) \o <<"y">>
S_long_z == repeat("n", 80) \o <<"z">>
S_jan15_am == <<"2", "0", "2", "6", "-", "0", "1", "-", "1", "5", "T", "0", "8">>
S_jan15_pm == <<"2", "0", "2", "6", "-", "0", "1", "-", "1", "5", "T", "2", "0">>
S_jan16 == <<"2", "0", "2", "6", "-", "0", "1", "-", "1", "6", "T", "0", "8">>

\* The sessions a run may have to name: the ExportSessionInfo fields that
\* buildFilename reads, and the timestamp of the first message.
NamedSessions ==
    { [info |-> [projectPath |-> S_proj, sessionName |-> S_x], date |-> S_jan15_am],
      [info |-> [projectPath |-> S_a_proj, sessionName |-> S_x], date |-> S_jan15_pm],
      [info |-> [projectPath |-> S_proj, sessionName |-> S_x_colon_2],
       date |-> S_jan15_am],
      [info |-> [projectPath |-> S_proj, sessionName |-> S_long_y], date |-> S_jan15_am],
      [info |-> [projectPath |-> S_proj, sessionName |-> S_long_z], date |-> S_jan15_am],
      [info |-> [projectPath |-> S_proj, sessionName |-> S_x], date |-> S_jan16] }

\* const usedFilenames = new Set<string>();
NamesInit ==
    /\ nSessions \in UNION {[1..n -> NamedSessions] : n \in 0..MaxNamed}
    /\ nI = 0
    /\ nUsed = {}
    /\ nWritten = <<>>

\* One session of the loop, from the filename to usedFilenames.add(filename);
\* the file is then written under that name.
nameSession ==
    /\ nI < Len(nSessions)
    /\ LET named == nSessions[nI + 1]
           filename == freeFilename(nUsed, named.info, named.date, 0)
       IN  /\ nUsed' = nUsed \cup {filename}
           /\ nWritten' = Append(nWritten, filename)
    /\ nI' = nI + 1
    /\ UNCHANGED nSessions
    /\ UNCHANGED exceptNames

NamesNext == nameSession

NamesIdle ==
    /\ nSessions = <<>>
    /\ nI = 0
    /\ nUsed = {}
    /\ nWritten = <<>>


----------------------------------------------------------------------------
(* useExportSessions: an export run, and a second one started meanwhile *)

\* The calls of exportSessions, in the order of the clicks on Export.
Runs == {1, 2}

\* open({ directory: true }) resolved with null
NOFOLDER == <<"null">>

S_exports == <<"/", "e", "x", "p", "o", "r", "t", "s">>

\* What the folder dialog resolves with.
Folders == {NOFOLDER, S_exports}

\* What one session of the loop meets: load_session_messages rejects, resolves
\* with no message, resolves with messages that sessionToMarkdown throws on,
\* or resolves with messages that can be written.
LoadOutcomes == {"error", "empty", "unprintable", "messages"}

\* write_text_file resolves or rejects.
WriteOutcomes == {"ok", "error"}

\* The selections an export may start from: up to MaxRunSessions sessions of
\* one project that carry the same name.
RunSelections ==
    { [j \in 1..n |-> [key |-> j,
                       info |-> [projectPath |-> S_proj, sessionName |-> S_x]]] :
        n \in 0..MaxRunSessions }

NoLast == [run |-> 0, current |-> 0, total |-> 0, progress |-> NOPROGRESS]

RunInit ==
    /\ selectedExportSessions \in RunSelections
    /\ isExporting = FALSE
    /\ exportProgress = NOPROGRESS
    /\ exportLog = <<>>
    /\ runPc = [r \in Runs |-> "idle"]
    /\ runFolder = [r \in Runs |-> <<>>]
    /\ runEntries = [r \in Runs |-> <<>>]
    /\ runI = [r \in Runs |-> 0]
    /\ runExported = [r \in Runs |-> 0]
    /\ runFailed = [r \in Runs |-> 0]
    /\ runUsed = [r \in Runs |-> {}]
    /\ runFilename = [r \in Runs |-> <<>>]
    /\ runToast = [r \in Runs |-> "none"]
    /\ runLoads = {}
    /\ runDisk = {}
    /\ runLast = NoLast

\* A call is between setIsExporting(true) and setIsExporting(false).
inProgress(r) == runPc[r] \in {"loading", "writing"}

\* A click on the Export button of ExportActionBar, which is shown while the
\* selection is not empty and is never disabled: exportSessions() runs up to
\* await open(...).  The folder dialog is modal: no click while one is open.
StartExport(r) ==
    /\ runPc[r] = "idle"
    /\ \A q \in Runs : q < r => runPc[q] # "idle"
    /\ \A q \in Runs : runPc[q] # "dialog"
    /\ Len(selectedExportSessions) > 0
    /\ runPc' = [runPc EXCEPT ![r] = "dialog"]
    /\ runEntries' = [runEntries EXCEPT ![r] = selectedExportSessions]
    /\ UNCHANGED <<runFolder, runI, runExported, runFailed, runUsed, runFilename,
                   runToast, runLoads, runDisk, runLast>>
    /\ UNCHANGED <<exportVars, exceptRun>>

\* A slip: the call goes on whatever the dialog resolved with.
folderChosenAlways(folder) == TRUE

\* if (!folder || typeof folder !== "string") return;
folderChosen(folder) == folder # NOFOLDER /\ folder # <<>>

\* The folder dialog resolves.  Without a folder the call returns; with one:
\* setIsExporting(true), the loading toast, and the loop starts with the load
\* of the first entry.
DialogReturns(r, folder) ==
    /\ runPc[r] = "dialog"
    /\ runFolder' = [runFolder EXCEPT ![r] = folder]
    /\ IF ~folderChosen(folder)
       THEN /\ runPc' = [runPc EXCEPT ![r] = "cancelled"]
            /\ UNCHANGED <<isExporting, runToast, runLoads>>
       ELSE /\ isExporting' = TRUE
            /\ runToast' = [runToast EXCEPT ![r] = "loading"]
            /\ runPc' = [runPc EXCEPT ![r] = "loading"]
            /\ runLoads' = runLoads \cup {<<r, runEntries[r][1].key>>}
    /\ UNCHANGED <<runEntries, runI, runExported, runFailed, runUsed, runFilename,
                   runDisk, runLast>>
    /\ UNCHANGED <<selectedExportSessions, exportProgress, exportLog, exceptRun>>

\* A slip: a session that failed ends the call on the spot.
endIterationAbort(r, failed, progressSet) ==
    LET total == Len(runEntries[r])
        current == runI[r] + 1
        progress == IF progressSet
                    THEN [current |-> current, total |-> total]
                    ELSE exportProgress
    IN  /\ runI' = [runI EXCEPT ![r] = current]
        /\ runLast' = [run |-> r, current |-> current, total |-> total,
                       progress |-> progress]
        /\ IF current < total /\ failed = 0
           THEN /\ runPc' = [runPc EXCEPT ![r] = "loading"]
                /\ runLoads' = runLoads \cup {<<r, runEntries[r][current + 1].key>>}
                /\ exportProgress' = progress
                /\ UNCHANGED <<isExporting, runToast>>
           ELSE /\ runPc' = [runPc EXCEPT ![r] = "done"]
                /\ isExporting' = FALSE
                /\ exportProgress' = NOPROGRESS
                /\ runToast' = [runToast EXCEPT ![r] =
                                  IF failed = 0 THEN "success" ELSE "error"]
                /\ UNCHANGED runLoads

\* The end of iteration i of the loop of call r, with or without line 92
\* (setExportProgress({ current: i + 1, total })), and what follows without an
\* await: the load of the next entry, or after the last entry
\* setIsExporting(false), setExportProgress(null) and the closing toast.
endIteration(r, failed, progressSet) ==
    LET total == Len(runEntries[r])
        current == runI[r] + 1
        progress == IF progressSet
                    THEN [current |-> current, total |-> total]
                    ELSE exportProgress
    IN  /\ runI' = [runI EXCEPT ![r] = current]
        /\ runLast' = [run |-> r, current |-> current, total |-> total,
                       progress |-> progress]
        /\ IF current < total
           THEN /\ runPc' = [runPc EXCEPT ![r] = "loading"]
                /\ runLoads' = runLoads \cup {<<r, runEntries[r][current + 1].key>>}
                /\ exportProgress' = progress
                /\ UNCHANGED <<isExporting, runToast>>
           ELSE /\ runPc' = [runPc EXCEPT ![r] = "done"]
                /\ isExporting' = FALSE
                /\ exportProgress' = NOPROGRESS
                /\ runToast' = [runToast EXCEPT ![r] =
                                  IF failed = 0 THEN "success" ELSE "error"]
                /\ UNCHANGED runLoads

\* await invoke("load_session_messages") settles for entry i of call r.
LoadReturns(r, outcome) ==
    /\ runPc[r] = "loading"
    /\ LET info == runEntries[r][runI[r] + 1].info
           filename == freeFilename(runUsed[r], info, S_jan15_am, 0)
       IN  CASE outcome = "error" ->
                  \* catch { failed++; }  then line 92
                  /\ runFailed' = [runFailed EXCEPT ![r] = @ + 1]
                  /\ endIteration(r, runFailed[r] + 1, TRUE)
                  /\ UNCHANGED <<runUsed, runFilename>>
             [] outcome = "empty" ->
                  \* if (messages.length === 0) { failed++; continue; }
                  /\ runFailed' = [runFailed EXCEPT ![r] = @ + 1]
                  /\ endIteration(r, runFailed[r] + 1, FALSE)
                  /\ UNCHANGED <<runUsed, runFilename>>
             [] outcome = "unprintable" ->
                  \* usedFilenames.add(filename); sessionToMarkdown throws; catch
                  /\ runUsed' = [runUsed EXCEPT ![r] = @ \cup {filename}]
                  /\ runFailed' = [runFailed EXCEPT ![r] = @ + 1]
                  /\ endIteration(r, runFailed[r] + 1, TRUE)
                  /\ UNCHANGED runFilename
             [] outcome = "messages" ->
                  \* usedFilenames.add(filename); await invoke("write_text_file")
                  /\ runUsed' = [runUsed EXCEPT ![r] = @ \cup {filename}]
                  /\ runFilename' = [runFilename EXCEPT ![r] = filename]
                  /\ runPc' = [runPc EXCEPT ![r] = "writing"]
                  /\ UNCHANGED <<isExporting, exportProgress, runI, runFailed,
                                 runToast, runLoads, runLast>>
    /\ UNCHANGED <<runFolder, runEntries, runExported, runDisk>>
    /\ UNCHANGED <<selectedExportSessions, exportLog, exceptRun>>

\* await invoke("write_text_file") settles for entry i of call r.
WriteReturns(r, outcome) ==
    /\ runPc[r] = "writing"
    /\ IF outcome = "ok"
       THEN /\ runDisk' = runDisk \cup {<<r, runFilename[r]>>}
            /\ runExported' = [runExported EXCEPT ![r] = @ + 1]
            /\ endIteration(r, runFailed[r], TRUE)
            /\ UNCHANGED runFailed
       ELSE /\ runFailed' = [runFailed EXCEPT ![r] = @ + 1]
            /\ endIteration(r, runFailed[r] + 1, TRUE)
            /\ UNCHANGED <<runDisk, runExported>>
    /\ runFilename' = [runFilename EXCEPT ![r] = <<>>]
    /\ UNCHANGED <<runFolder, runEntries, runUsed>>
    /\ UNCHANGED <<selectedExportSessions, exportLog, exceptRun>>

RunNext ==
    \/ \E r \in Runs : StartExport(r)
    \/ \E r \in Runs, folder \in Folders : DialogReturns(r, folder)
    \/ \E r \in Runs, outcome \in LoadOutcomes : LoadReturns(r, outcome)
    \/ \E r \in Runs, outcome \in WriteOutcomes : WriteReturns(r, outcome)

RunIdle ==
    /\ runPc = [r \in Runs |-> "idle"]
    /\ runFolder = [r \in Runs |-> <<>>]
    /\ runEntries = [r \in Runs |-> <<>>]
    /\ runI = [r \in Runs |-> 0]
    /\ runExported = [r \in Runs |-> 0]
    /\ runFailed = [r \in Runs |-> 0]
    /\ runUsed = [r \in Runs |-> {}]
    /\ runFilename = [r \in Runs |-> <<>>]
    /\ runToast = [r \in Runs |-> "none"]
    /\ runLoads = {}
    /\ runDisk = {}
    /\ runLast = NoLast


----------------------------------------------------------------------------
(* The provider slice of the store *)

ProviderIds == {"claude", "codex", "opencode"}

\* Array.prototype.includes
arrayIncludes(array, x) == \E j \in 1..Len(array) : array[j] = x

\* What detect_providers resolves with: the three providers, each available
\* or not, or no provider at all.
DetectResults ==
    {<<>>} \cup
    { << [id |-> "claude", is_available |-> a],
         [id |-> "codex", is_available |-> b],
         [id |-> "opencode", is_available |-> c] >> : a, b, c \in BOOLEAN }

\* The arrays given to setActiveProviders: the provider ids in any order,
\* none twice.
IdArrays ==
    {ids \in UNION {[1..n -> ProviderIds] : n \in 0..3} :
        \A j, k \in 1..Len(ids) : j # k => ids[j] # ids[k]}

\* providers.filter((p) => p.is_available).map((p) => p.id)
availableIds(found) ==
    LET kept == SelectSeq(found, LAMBDA info : info.is_available)
    IN  [j \in 1..Len(kept) |-> kept[j].id]

\* toggleProvider: the next activeProviders
toggleProvider(current, id) ==
    LET next == IF arrayIncludes(current, id)
                THEN SelectSeq(current, LAMBDA other : other # id)
                ELSE Append(current, id)
    IN  IF Len(next) > 0 THEN next ELSE current

\* initialProviderState
ProviderInit ==
    /\ providers = <<>>
    /\ activeProviders = <<"claude", "codex", "opencode">>
    /\ isDetectingProviders = FALSE
    /\ detectPending = 0

\* detectProviders() up to the await
DetectProviders ==
    /\ detectPending < MaxDetect
    /\ detectPending' = detectPending + 1
    /\ isDetectingProviders' = TRUE
    /\ UNCHANGED <<providers, activeProviders>>
    /\ UNCHANGED exceptProvider

\* invoke("detect_providers") resolves: set({ providers, activeProviders }),
\* then finally
DetectResolves(found) ==
    /\ detectPending > 0
    /\ detectPending' = detectPending - 1
    /\ providers' = found
    /\ activeProviders' = availableIds(found)
    /\ isDetectingProviders' = FALSE
    /\ UNCHANGED exceptProvider

\* invoke("detect_providers") rejects: catch, then finally
DetectRejects ==
    /\ detectPending > 0
    /\ detectPending' = detectPending - 1
    /\ isDetectingProviders' = FALSE
    /\ UNCHANGED <<providers, activeProviders>>
    /\ UNCHANGED exceptProvider

ToggleProvider(id) ==
    /\ activeProviders' = toggleProvider(activeProviders, id)
    /\ UNCHANGED <<providers, isDetectingProviders, detectPending>>
    /\ UNCHANGED exceptProvider

\* setActiveProviders: (ids) => set({ activeProviders: ids })
SetActiveProviders(ids) ==
    /\ activeProviders' = ids
    /\ UNCHANGED <<providers, isDetectingProviders, detectPending>>
    /\ UNCHANGED exceptProvider

ProviderNext ==
    \/ DetectProviders
    \/ \E found \in DetectResults : DetectResolves(found)
    \/ DetectRejects
    \/ \E id \in ProviderIds : ToggleProvider(id)
    \/ \E ids \in IdArrays : SetActiveProviders(ids)

ProviderIdle == ProviderInit


----------------------------------------------------------------------------
(* SimpleUpdateManager: the automatic and the manual update check *)

DAY_MS == 24 * 60 * 60 * 1000

WEEK_MS == 7 * DAY_MS

\* Date.now(), the same during the seconds the component is followed.
NOW == 2 * WEEK_MS

DefaultSettings ==
    [autoCheck |-> TRUE, checkInterval |-> "daily", respectOfflineStatus |-> TRUE,
     lastPostponedAt |-> 0, postponeInterval |-> DAY_MS, lastCheckedAt |-> 0]

\* The updateSettings values the store may hold.
SettingsPool ==
    { DefaultSettings,
      [DefaultSettings EXCEPT !.autoCheck = FALSE],
      [DefaultSettings EXCEPT !.checkInterval = "never"],
      [DefaultSettings EXCEPT !.lastPostponedAt = NOW - 1],
      [DefaultSettings EXCEPT !.lastCheckedAt = NOW - DAY_MS],
      [DefaultSettings EXCEPT !.lastCheckedAt = NOW - DAY_MS + 1],
      [DefaultSettings EXCEPT !.checkInterval = "weekly",
                              !.lastCheckedAt = NOW - DAY_MS],
      [DefaultSettings EXCEPT !.checkInterval = "weekly",
                              !.lastCheckedAt = NOW - WEEK_MS] }

\* const shouldRunAutoCheck = useCallback(() => { ... }, [updateSettings])
shouldRunAutoCheck(settings, isOnline, now) ==
    IF ~settings.autoCheck THEN FALSE
    ELSE IF settings.checkInterval = "never" THEN FALSE
    ELSE IF settings.respectOfflineStatus /\ ~isOnline THEN FALSE
    ELSE IF settings.lastPostponedAt # 0
            /\ now - settings.lastPostponedAt < settings.postponeInterval
         THEN FALSE
    ELSE IF settings.checkInterval = "daily" /\ settings.lastCheckedAt # 0
         THEN now - settings.lastCheckedAt >= DAY_MS
    ELSE IF settings.checkInterval = "weekly" /\ settings.lastCheckedAt # 0
         THEN now - settings.lastCheckedAt >= WEEK_MS
    ELSE TRUE

Quiet == [isChecking |-> FALSE, error |-> FALSE]

\* The component has mounted: loadUpdateSettings() is awaited, and the auto
\* check effect has returned at !isSettingsLoaded.
UpdateInit ==
    /\ updateSettings \in SettingsPool
    /\ online \in BOOLEAN
    /\ isDev \in BOOLEAN
    /\ updaterFresh \in BOOLEAN
    /\ mounted = TRUE
    /\ loadPending = TRUE
    /\ isSettingsLoaded = FALSE
    /\ hasAutoChecked = FALSE
    /\ autoTimer = FALSE
    /\ inFlight = 0
    /\ updaterState = Quiet
    /\ renderedState = Quiet
    /\ isManualCheck = FALSE
    /\ lastCheckWasManual = FALSE
    /\ showError = FALSE
    /\ autoScheduled = FALSE
    /\ autoStarted = FALSE

\* The auto check effect runs again because one of its dependencies
\* [isSettingsLoaded, shouldRunAutoCheck, updater, setUpdateSetting] changed:
\* the cleanup of its last run (clearTimeout) and then its body, with the
\* values of the new render.  manual is what lastCheckWasManual is otherwise.
autoCheckEffect(settingsLoaded, settings, manual) ==
    IF isDev \/ ~settingsLoaded \/ hasAutoChecked
    THEN /\ autoTimer' = FALSE
         /\ lastCheckWasManual' = manual
         /\ UNCHANGED <<hasAutoChecked, autoScheduled>>
    ELSE /\ hasAutoChecked' = TRUE
         /\ IF shouldRunAutoCheck(settings, online, NOW)
            THEN /\ lastCheckWasManual' = FALSE
                 /\ autoTimer' = TRUE
                 /\ autoScheduled' = TRUE
            ELSE /\ autoTimer' = FALSE
                 /\ lastCheckWasManual' = manual
                 /\ UNCHANGED autoScheduled

\* No render: the effect does not run.
noEffect(manual) ==
    /\ lastCheckWasManual' = manual
    /\ UNCHANGED <<hasAutoChecked, autoTimer, autoScheduled>>

\* updater.state.isChecking as a handler of the last render reads it.
isCheckingRead ==
    IF updaterFresh THEN renderedState.isChecking ELSE updaterState.isChecking

\* updater.checkForUpdates() is called.
checkForUpdates ==
    /\ inFlight' = inFlight + 1
    /\ updaterState' = [isChecking |-> TRUE, error |-> FALSE]

\* await loadUpdateSettings() resolves with the stored settings;
\* if (mounted) setIsSettingsLoaded(true)
SettingsLoaded(settings) ==
    /\ loadPending
    /\ loadPending' = FALSE
    /\ updateSettings' = settings
    /\ isSettingsLoaded' = mounted
    /\ IF mounted
       THEN autoCheckEffect(TRUE, settings, lastCheckWasManual)
       ELSE noEffect(lastCheckWasManual)
    /\ UNCHANGED <<online, isDev, updaterFresh, mounted, inFlight, updaterState,
                   renderedState, isManualCheck, showError, autoStarted>>
    /\ UNCHANGED exceptUpdate

\* The store's updateSettings change (a setting is edited, an update is
\* postponed): shouldRunAutoCheck is a new function.
SettingsChange(settings) ==
    /\ ~loadPending
    /\ settings # updateSettings
    /\ updateSettings' = settings
    /\ IF mounted
       THEN autoCheckEffect(isSettingsLoaded, settings, lastCheckWasManual)
       ELSE noEffect(lastCheckWasManual)
    /\ UNCHANGED <<online, isDev, updaterFresh, mounted, loadPending,
                   isSettingsLoaded, inFlight, updaterState, renderedState,
                   isManualCheck, showError, autoStarted>>
    /\ UNCHANGED exceptUpdate

\* A render with the updater's state of the moment.  The effect on the manual
\* check's result: if (!isChecking && isManualCheck) { if (error) setShowError(true);
\* setIsManualCheck(false) }.  A new updater object runs the auto check effect.
Render ==
    /\ mounted
    /\ renderedState # updaterState \/ (isManualCheck /\ ~updaterState.isChecking)
    /\ renderedState' = updaterState
    /\ IF ~updaterState.isChecking /\ isManualCheck
       THEN /\ isManualCheck' = FALSE
            /\ showError' = (showError \/ updaterState.error)
       ELSE UNCHANGED <<isManualCheck, showError>>
    /\ IF updaterFresh /\ renderedState # updaterState
       THEN autoCheckEffect(isSettingsLoaded, updateSettings, lastCheckWasManual)
       ELSE noEffect(lastCheckWasManual)
    /\ UNCHANGED <<updateSettings, online, isDev, updaterFresh, mounted, loadPending,
                   isSettingsLoaded, inFlight, updaterState, autoStarted>>
    /\ UNCHANGED exceptUpdate

\* The timer of the auto check fires: void updater.checkForUpdates()...
TimerFires ==
    /\ autoTimer
    /\ autoTimer' = FALSE
    /\ autoStarted' = TRUE
    /\ checkForUpdates
    /\ UNCHANGED <<updateSettings, online, isDev, updaterFresh, mounted, loadPending,
                   isSettingsLoaded, hasAutoChecked, renderedState, isManualCheck,
                   lastCheckWasManual, showError, autoScheduled>>
    /\ UNCHANGED exceptUpdate

\* window receives "manual-update-check": handleManualCheck
ManualCheck ==
    /\ mounted
    /\ ~isCheckingRead
    /\ inFlight < MaxChecks
    /\ lastCheckWasManual' = TRUE
    /\ isManualCheck' = TRUE
    /\ showError' = FALSE
    /\ checkForUpdates
    /\ UNCHANGED <<updateSettings, online, isDev, updaterFresh, mounted, loadPending,
                   isSettingsLoaded, hasAutoChecked, autoTimer, renderedState,
                   autoScheduled, autoStarted>>
    /\ UNCHANGED exceptUpdate

\* UpdateErrorNotification, visible while showError: onRetry
Retry ==
    /\ mounted
    /\ showError
    /\ ~isCheckingRead
    /\ inFlight < MaxChecks
    /\ lastCheckWasManual' = TRUE
    /\ isManualCheck' = TRUE
    /\ checkForUpdates
    /\ UNCHANGED <<updateSettings, online, isDev, updaterFresh, mounted, loadPending,
                   isSettingsLoaded, hasAutoChecked, autoTimer, renderedState,
                   showError, autoScheduled, autoStarted>>
    /\ UNCHANGED exceptUpdate

\* UpdateErrorNotification: onClose={() => setShowError(false)}
CloseError ==
    /\ mounted
    /\ showError
    /\ showError' = FALSE
    /\ UNCHANGED <<updateSettings, online, isDev, updaterFresh, mounted, loadPending,
                   isSettingsLoaded, hasAutoChecked, autoTimer, inFlight, updaterState,
                   renderedState, isManualCheck, lastCheckWasManual, autoScheduled,
                   autoStarted>>
    /\ UNCHANGED exceptUpdate

\* A checkForUpdates() promise settles, with an error or without;
\* finally(() => setUpdateSetting("lastCheckedAt", Date.now())), which changes
\* updateSettings.
CheckSettles(failed) ==
    /\ inFlight > 0
    /\ inFlight' = inFlight - 1
    /\ updaterState' = [isChecking |-> FALSE, error |-> failed]
    /\ updateSettings' = [updateSettings EXCEPT !.lastCheckedAt = NOW]
    /\ IF mounted /\ updateSettings.lastCheckedAt # NOW
       THEN autoCheckEffect(isSettingsLoaded,
                            [updateSettings EXCEPT !.lastCheckedAt = NOW],
                            lastCheckWasManual)
       ELSE noEffect(lastCheckWasManual)
    /\ UNCHANGED <<online, isDev, updaterFresh, mounted, loadPending,
                   isSettingsLoaded, renderedState, isManualCheck, showError,
                   autoStarted>>
    /\ UNCHANGED exceptUpdate

\* The component unmounts: the cleanups run (mounted = false, clearTimeout,
\* removeEventListener).
Unmount ==
    /\ mounted
    /\ mounted' = FALSE
    /\ autoTimer' = FALSE
    /\ UNCHANGED <<updateSettings, online, isDev, updaterFresh, loadPending,
                   isSettingsLoaded, hasAutoChecked, inFlight, updaterState,
                   renderedState, isManualCheck, lastCheckWasManual, showError,
                   autoScheduled, autoStarted>>
    /\ UNCHANGED exceptUpdate

UpdateNext ==
    \/ \E settings \in SettingsPool : SettingsLoaded(settings)
    \/ \E settings \in SettingsPool : SettingsChange(settings)
    \/ Render
    \/ TimerFires
    \/ ManualCheck
    \/ Retry
    \/ CloseError
    \/ \E failed \in BOOLEAN : CheckSettles(failed)
    \/ Unmount

UpdateIdle ==
    /\ updateSettings = DefaultSettings
    /\ online = TRUE
    /\ isDev = TRUE
    /\ updaterFresh = TRUE
    /\ mounted = FALSE
    /\ loadPending = FALSE
    /\ isSettingsLoaded = FALSE
    /\ hasAutoChecked = FALSE
    /\ autoTimer = FALSE
    /\ inFlight = 0
    /\ updaterState = Quiet
    /\ renderedState = Quiet
    /\ isManualCheck = FALSE
    /\ lastCheckWasManual = FALSE
    /\ showError = FALSE
    /\ autoScheduled = FALSE
    /\ autoStarted = FALSE

LateIdle == NamesIdle /\ RunIdle /\ ProviderIdle /\ UpdateIdle

----------------------------------------------------------------------------
(* Specifications: one per component, the other components at rest *)

LabelIdle ==
    /\ count = 0
    /\ indices = <<>>
    /\ i = 0
    /\ lpc = "done"

MatchIdle ==
    /\ brush = NULL
    /\ card = brushable(Msg(1))
    /\ matched = TRUE
    /\ mpc = "done"

BoardIdle ==
    /\ activeBrush = NULL
    /\ lastSetterArg = NULL
    /\ hovered = {}
    /\ zoomLevel = 0
    /\ expanded = 0
    /\ triggerRect = {}
    /\ lastClick = [id |-> 0, active |-> FALSE, invoked |-> FALSE]
    /\ lastPopoverClick = NoPopoverClick

RestIdle == NavIdle /\ PopIdle /\ GridIdle /\ ExportIdle /\ LateIdle

InitLabel == LabelInit /\ MatchIdle /\ BoardIdle /\ RestIdle

InitMatch == MatchInit /\ LabelIdle /\ BoardIdle /\ RestIdle

InitBoard == BoardInit /\ LabelIdle /\ MatchIdle /\ RestIdle

SpecLabel == InitLabel /\ [][LabelNext]_vars

SpecMatch == InitMatch /\ [][MatchNext]_vars

SpecBoard == InitBoard /\ [][BoardNext]_vars

InitNav ==
    /\ NavInit /\ LabelIdle /\ MatchIdle /\ BoardIdle /\ PopIdle /\ GridIdle
    /\ ExportIdle /\ LateIdle

SpecNav == InitNav /\ [][NavNext]_vars

InitPop ==
    /\ PopInit /\ LabelIdle /\ MatchIdle /\ BoardIdle /\ NavIdle /\ GridIdle
    /\ ExportIdle /\ LateIdle

SpecPop == InitPop /\ [][PopNext]_vars

InitGrid ==
    /\ GridInit /\ LabelIdle /\ MatchIdle /\ BoardIdle /\ NavIdle /\ PopIdle
    /\ ExportIdle /\ LateIdle

SpecGrid == InitGrid /\ [][GridNext]_vars

InitExport ==
    /\ ExportInit /\ LabelIdle /\ MatchIdle /\ BoardIdle /\ NavIdle /\ PopIdle
    /\ GridIdle /\ LateIdle

SpecExport == InitExport /\ [][ExportNext]_vars

\* The first seven components at rest.
EarlyIdle ==
    /\ LabelIdle /\ MatchIdle /\ BoardIdle /\ NavIdle /\ PopIdle /\ GridIdle
    /\ ExportIdle

InitNames == NamesInit /\ EarlyIdle /\ RunIdle /\ ProviderIdle /\ UpdateIdle

\* An export run starts from a selection; the other components are at rest.
InitRun ==
    /\ RunInit /\ LabelIdle /\ MatchIdle /\ BoardIdle /\ NavIdle /\ PopIdle /\ GridIdle
    /\ NamesIdle /\ ProviderIdle /\ UpdateIdle

SpecRun == InitRun /\ [][RunNext]_vars

\* Every awaited load and write settles.
RunFairness ==
    \A r \in Runs :
        /\ WF_vars(\E outcome \in LoadOutcomes : LoadReturns(r, outcome))
        /\ WF_vars(\E outcome \in WriteOutcomes : WriteReturns(r, outcome))

SpecRunFair == SpecRun /\ RunFairness

InitProvider == ProviderInit /\ EarlyIdle /\ NamesIdle /\ RunIdle /\ UpdateIdle

SpecProvider == InitProvider /\ [][ProviderNext]_vars

InitUpdate == UpdateInit /\ EarlyIdle /\ NamesIdle /\ RunIdle /\ ProviderIdle

SpecUpdate == InitUpdate /\ [][UpdateNext]_vars

\* A pending timer fires.
SpecUpdateFair == SpecUpdate /\ WF_vars(TimerFires)

SpecNames == InitNames /\ [][NamesNext]_vars

----------------------------------------------------------------------------
(* Claims about selectLabelIndices, checked under SpecLabel *)

\* C1: once selectLabelIndices has returned for a count >= 1, the result
\* contains index 0 and no two returned indices are closer than
\* MIN_LABEL_GAP_PX pixels (abs(i-j) * SLOT_WIDTH >= 44), the pair
\* (0, count-1) of the first and the last bar excepted.
C1_NoLabelCollision ==
    (lpc = "done" /\ count >= 1) =>
        /\ 0 \in Range(indices)
        /\ \A a, b \in 1..Len(indices) :
              a # b =>
                \/ Abs(indices[a] - indices[b]) * SLOT_WIDTH >= MIN_LABEL_GAP_PX
                \/ {indices[a], indices[b]} = {0, count - 1}

\* C2: the result of selectLabelIndices always holds the first and the last
\* bar index: empty for count = 0, <<0>> for count = 1, and both 0 and
\* count-1 for every count >= 1.
C2_FirstAndLastIncluded ==
    lpc = "done" =>
        /\ count = 0 => indices = <<>>
        /\ count = 1 => indices = <<0>>
        /\ count >= 1 => 0 \in Range(indices) /\ (count - 1) \in Range(indices)

\* The included index closest below k.
PrevIncluded(S, k) == CHOOSE j \in S : j < k /\ \A m \in S : m < k => m <= j

----------------------------------------------------------------------------
(* Claims about matchesBrush, checked under SpecMatch *)

\* v is a suffix of f: f is some prefix of f followed by v.
IsSuffixOf(v, f) == \E n \in 0..Len(f) : SubSeq(f, 1, n) \o v = f

\* v occurs in s: s is a prefix, then v, then the rest.
IsSubstringOf(v, s) ==
    \E a \in 0..Len(s) : \E b \in a..Len(s) :
        SubSeq(s, 1, a) \o v \o SubSeq(s, b + 1, Len(s)) = s

\* C4: with no active brush (null) matchesBrush returns true for every card,
\* whatever its model, variant, status flags and edited files.
C4_NullBrushMatchesAll == (mpc = "done" /\ brush = NULL) => matched

\* matchesBrush(null, card) has returned for a card with no model, no flag set
\* and no edited file.
C4_Witness ==
    /\ mpc = "done" /\ brush = NULL /\ matched
    /\ card.model = UNDEFINED /\ card.editedFiles = <<>>
    /\ ~card.isError /\ ~card.isCancelled /\ ~card.isCommit

C6_StatusBrush ==
    (mpc = "done" /\ brush # NULL /\ brush.type = "status") =>
        /\ brush.value = S_error => (matched <=> card.isError)
        /\ brush.value = S_cancelled => (matched <=> card.isCancelled)
        /\ brush.value = S_commit => (matched <=> card.isCommit)
        /\ brush.value \notin {S_error, S_cancelled, S_commit} => ~matched

\* The brush status/cancelled has matched a cancelled card that is neither an
\* error nor a commit.
C6_Witness ==
    /\ mpc = "done" /\ brush = [type |-> "status", value |-> S_cancelled]
    /\ card.isCancelled /\ ~card.isError /\ ~card.isCommit
    /\ matched

\* C7: a non-null brush whose type is none of model, tool, status, file
\* matches no card, whatever its value and the card.
C7_UnknownTypeNeverMatches ==
    (mpc = "done" /\ brush # NULL
        /\ brush.type \notin {"model", "tool", "status", "file"}) => ~matched

\* A brush of type "role" has been matched against a card with every flag set
\* whose model contains the brush value, and did not match.
C7_Witness ==
    /\ mpc = "done" /\ brush = [type |-> "role", value |-> S_opus]
    /\ card.model = S_opus /\ card.isError /\ card.isCancelled /\ card.isCommit
    /\ ~matched

\* C8: a model brush matches a card exactly when the card has a model
\* identifier (neither absent nor empty) and brush.value occurs in it; a card
\* without one matches no model brush, not even the one whose value is "".
C8_ModelBrush ==
    (mpc = "done" /\ brush # NULL /\ brush.type = "model") =>
        /\ matched <=>
              /\ card.model # UNDEFINED
              /\ card.model # S_empty
              /\ IsSubstringOf(brush.value, card.model)
        /\ card.model \in {UNDEFINED, S_empty} => ~matched

\* The model brush "" has been matched against a card whose model is "".
C8_Witness ==
    /\ mpc = "done" /\ brush = [type |-> "model", value |-> S_empty]
    /\ card.model = S_empty
    /\ ~matched

----------------------------------------------------------------------------
(* Claims about the board, checked under SpecBoard *)

\* C9: brushing removes no card.  For every card and zoom level, whether
\* InteractionCard renders and whether its click handler is attached are the
\* same for isActive true and false; a rendered card outside the brush is
\* de-emphasised (dimmed, no hover emphasis) and still takes pointer events;
\* and every click on a card element, dimmed or not, has invoked onClick.
C9_BrushingRemovesNoCard ==
    /\ \A id \in CardIds : \A z \in ZoomLevels :
          LET on == InteractionCard(Msg(id), z, TRUE, isExpanded(id), id \in triggerRect)
              off == InteractionCard(Msg(id), z, FALSE, isExpanded(id), id \in triggerRect)
          IN  /\ on.rendered = off.rendered
              /\ on.onClick = off.onClick
              /\ off.rendered =>
                    /\ "opacity-20" \in off.classes
                    /\ "grayscale" \in off.classes
                    /\ "hover:border-accent" \notin off.classes
                    /\ "pointer-events-none" \notin off.classes
    /\ \A id \in CardIds :
          Rendered(id).rendered <=>
              InteractionCard(Msg(id), zoomLevel, TRUE, isExpanded(id),
                              id \in triggerRect).rendered
    /\ lastClick.id # 0 => lastClick.invoked

\* A card outside the active brush has been clicked and its onClick has run.
C9_Witness ==
    /\ lastClick.id # 0 /\ ~lastClick.active /\ lastClick.invoked
    /\ activeBrush # NULL
    /\ \E id \in CardIds : Rendered(id).rendered /\ ~isActive(id)

----------------------------------------------------------------------------
(* Claims about the NavigationController, checked under SpecNav *)

C13_CancelledJumpNeverFires ==
    /\ ~lastJump.stale
    /\ ~lastJump.scrolled => ~lastJump.highlighted
    /\ navState = "PendingJump" => (jumpSession = session /\ screen = "detail")

\* A jump was requested, the session was switched while it was pending, and
\* no jump has ever been consumed.
C13_Witness ==
    /\ jumpSession # 0 /\ jumpSession # session
    /\ lastJump = NoJump
    /\ navState = "Idle" /\ targetEventId = 0

----------------------------------------------------------------------------
(* Claims about the popover placement, checked under SpecPop *)

\* C14: for every trigger rectangle and viewport height the rendered popover
\* has maxHeight = min(600, viewportHeight - 40), its top is at least the 20px
\* top margin and top + maxHeight is at most viewportHeight - 20; when the
\* popover placed at the trigger's top would overflow the bottom, it is moved
\* up exactly far enough that its bottom is at viewportHeight - 20.
C14_VerticalClamp ==
    pPos # NOPOS =>
        LET st == pPos.style
            H == pPos.win.h
        IN  /\ st.maxHeight = Min(600, H - 40)
            /\ st.top >= 20
            /\ st.top + st.maxHeight <= H - 20
            /\ pPos.rect.top + st.maxHeight > H - 20 =>
                  st.top + st.maxHeight = H - 20
            /\ (pPos.rect.top + st.maxHeight <= H - 20 /\ pPos.rect.top >= 20) =>
                  st.top = pPos.rect.top

\* A popover has been rendered for a trigger so low that it had to move up.
C14_Witness ==
    /\ pPos # NOPOS
    /\ pPos.rect.top = 900 /\ pPos.win.h = 1000
    /\ pPos.style.top = 380

\* C15: the popover is placed at left = trigger.right + 12, unless that
\* overflows the right edge (left + 480 > viewportWidth - 20); then, and only
\* then, it is placed at left = trigger.left - 480 - 12.
C15_HorizontalFlip ==
    pPos # NOPOS =>
        LET st == pPos.style
            r == pPos.rect
            overflow == r.right + 12 + 480 > pPos.win.w - 20
        IN  /\ overflow => st.left = r.left - 480 - 12
            /\ ~overflow => st.left = r.right + 12

\* A popover that fits exactly (its right edge at viewportWidth - 20) has been
\* rendered to the right of its trigger.
C15_Witness ==
    /\ pPos # NOPOS
    /\ pPos.rect.right + 12 + 480 = pPos.win.w - 20
    /\ pPos.style.left = pPos.rect.right + 12

\* C16: the rendered popover position is never out of date: while the card is
\* expanded, after any scroll, resize or zoom change, it equals the position
\* computed from the trigger's current rectangle and the current viewport.
C16_PositionNeverStale ==
    pPos # NOPOS => pPos.style = popoverStyle(pRect, pWin)

\* C17: a click on the close button or on the backdrop of the open popover
\* invokes onClose exactly once and closes it; a click inside the popover body
\* invokes neither the backdrop handler nor onClose and leaves it open; a
\* backdrop click does not propagate beyond the backdrop.
C17_PopoverClosesOnlyExplicitly ==
    LET c == lastPopoverClick
    IN  c.target # "none" =>
            /\ c.target \in {"backdrop", "closeButton"} => c.onClose = 1 /\ c.closed
            /\ c.target = "body" =>
                  c.onClose = 0 /\ "backdrop" \notin c.ran /\ ~c.closed
            /\ c.target = "backdrop" => ~c.propagated /\ c.ran = {"backdrop"}
            /\ c.target = "closeButton" => "backdrop" \notin c.ran

\* The popover has been closed by a backdrop click.
C17_Witness ==
    /\ lastPopoverClick.target = "backdrop"
    /\ lastPopoverClick.onClose = 1
    /\ expanded = 0

\* C18: at zoom level 0 no card renders the expanded popover, whatever its
\* isExpanded prop; at zoom levels 1 and 2 a rendered card shows the popover
\* exactly when isExpanded is true and its trigger rectangle is measured.
C18_PopoverByZoomLevel ==
    \A id \in CardIds :
        /\ zoomLevel = 0 => ~Rendered(id).popover
        /\ zoomLevel \in {1, 2} =>
              (Rendered(id).popover <=> (isExpanded(id) /\ id \in triggerRect))

\* At zoom level 0 a card is expanded with a measured rectangle, and no popover
\* is on screen.
C18_Witness ==
    /\ zoomLevel = 0
    /\ expanded # 0
    /\ expanded \in triggerRect
    /\ Rendered(expanded).rendered
    /\ ~PopoverOpen

----------------------------------------------------------------------------
(* Claims about ContributionGrid, checked under SpecGrid *)

\* The largest sessionCount of a list of bars, 0 for the empty list.
largestCount(bars) ==
    IF bars = <<>>
    THEN 0
    ELSE CHOOSE x \in Range(bars) : \A y \in Range(bars) : y <= x

\* C19: every intensity computed for a bar is a quotient with a non-zero
\* divisor and lies in [0,1]; once the maximum is known, a bar holding it has
\* intensity 1 when the maximum is positive; when every count is 0 every
\* intensity is 0; an empty list renders no bar at all.
C19_IntensityInUnitInterval ==
    /\ \A k \in 1..Len(intensities) :
          LET q == intensities[k]
              top == largestCount(dailyBars)
          IN  /\ q.den # 0
              /\ 0 <= q.num /\ q.num <= q.den
              /\ q.num * top = dailyBars[k] * q.den
              /\ (dailyBars[k] = top /\ top > 0) => q.num = q.den
              /\ top = 0 => q.num = 0
    /\ gpc \in {"bars", "done"} => maxCount = largestCount(dailyBars)
    /\ gpc = "empty" => dailyBars = <<>> /\ intensities = <<>>

\* A full render in which one bar holds the positive maximum, one lies
\* strictly below it and one is empty.
C19_Witness ==
    /\ gpc = "done"
    /\ Len(intensities) = Len(dailyBars)
    /\ \E a, b, c \in 1..Len(dailyBars) :
          /\ intensities[a].num = intensities[a].den
          /\ 0 < intensities[b].num /\ intensities[b].num < intensities[b].den
          /\ dailyBars[c] = 0 /\ intensities[c].num = 0

----------------------------------------------------------------------------
(* Claims about the export slice, checked under SpecExport *)

----------------------------------------------------------------------------
(* Claims about the export filenames, checked under SpecNames *)

\* C28: within one run no two sessions get the same filename: every filename
\* chosen differs from all chosen before it, and it is the name built with
\* the smallest index whose name was still free - no suffix when the plain
\* name is free, otherwise the suffix _2, _3, ... of the first free one.
C28_FilenamesDistinct ==
    \A k \in 1..Len(nWritten) :
        LET before == {nWritten[j] : j \in 1..(k - 1)}
            named == nSessions[k]
            name(index) == buildFilename(named.info.projectPath,
                                         named.info.sessionName, named.date, index)
        IN  /\ nWritten[k] \notin before
            /\ \E index \in 0..MaxNamed :
                  /\ nWritten[k] = name(index)
                  /\ \A lower \in 0..(index - 1) : name(lower) \in before

\* Two names longer than 80 characters that differ only after the 80th have
\* been named in one run, and the second got the suffix _2.
C28_Witness ==
    \E a, b \in 1..Len(nWritten) :
        /\ a < b
        /\ nSessions[a].info.sessionName = S_long_y
        /\ nSessions[b].info.sessionName = S_long_z
        /\ nWritten[b] = sliceTo(nWritten[a], Len(nWritten[a]) - 3)
                            \o <<"_", "2", ".", "m", "d">>

----------------------------------------------------------------------------
(* Claims about an export run, checked under SpecRun and SpecRunFair *)

\* C21: a call whose folder dialog returned no folder does nothing: it ends
\* there, it loads no session, writes no file and shows no toast, and the
\* step that ends it leaves isExporting and exportProgress as they were.
C21_NoFolderNoExport ==
    [][\A r \in Runs :
          runFolder'[r] = NOFOLDER =>
              /\ runPc'[r] = "cancelled"
              /\ \A load \in runLoads' : load[1] # r
              /\ \A file \in runDisk' : file[1] # r
              /\ runToast'[r] = "none"
              /\ runPc[r] = "dialog" =>
                    /\ isExporting' = isExporting
                    /\ exportProgress' = exportProgress
                    /\ runLoads' = runLoads
                    /\ runDisk' = runDisk]_vars

\* The second call's dialog was cancelled while the first call is exporting.
C21_Witness ==
    /\ runFolder[2] = NOFOLDER
    /\ inProgress(1)
    /\ isExporting

\* C22: the step by which a call starts its loop sets isExporting to true; a
\* call in its loop eventually ends, whatever its sessions do, having asked
\* for every selected session, counted each as exported or failed, and set
\* isExporting to false and exportProgress to null.
C22_RunEndsAndResets ==
    /\ [][\A r \in Runs : (~inProgress(r) /\ inProgress(r)') => isExporting']_vars
    /\ \A r \in Runs :
          inProgress(r) ~>
              /\ runPc[r] = "done"
              /\ isExporting = FALSE
              /\ exportProgress = NOPROGRESS
              /\ \A j \in 1..Len(runEntries[r]) :
                    <<r, runEntries[r][j].key>> \in runLoads
              /\ runExported[r] + runFailed[r] = Len(runEntries[r])

\* A call has ended although its first session failed and a later one was
\* exported.
C22_Witness ==
    \E r \in Runs :
        /\ runPc[r] = "done"
        /\ runFailed[r] >= 1
        /\ runExported[r] >= 1
        /\ \E file \in runDisk : file[1] = r
        /\ isExporting = FALSE

\* C27: after the i-th of N sessions of a run has been processed - exported,
\* failed, or counted as failed for having no messages - exportProgress is
\* { current: i, total: N }.
C27_ProgressAfterEachSession ==
    runLast.run # 0 =>
        runLast.progress = [current |-> runLast.current, total |-> runLast.total]

\* C29: isExporting is true in every state in which a call of exportSessions
\* is in its loop, also when a second call was started while the first was
\* still waiting.
C29_ExportingWhileRunning ==
    (\E r \in Runs : inProgress(r)) => isExporting

----------------------------------------------------------------------------
(* Claims about the provider slice, checked under SpecProvider *)

\* C23: at least one provider is active in every reachable state, whatever
\* toggleProvider, setActiveProviders and detectProviders calls were made.
C23_AtLeastOneActiveProvider == Len(activeProviders) > 0

----------------------------------------------------------------------------
(* Further claims about the board and the popover *)

\* C25: every brush an interaction card emits through onHover has a type that
\* matchesBrush recognises (model, tool, status or file), and a hovered card
\* whose own hover set the active brush matches it (stays highlighted).
C25_EmittedBrushRecognised ==
    activeBrush # NULL =>
        /\ activeBrush.type \in {"model", "tool", "status", "file"}
        /\ \A id \in hovered :
               activeBrush = [type |-> "role", value |-> Msg(id).role] => isActive(id)

\* C26: the rendered popover lies horizontally inside the viewport:
\* 0 <= left and left + 480 <= viewportWidth, flipped or not.
C26_PopoverInsideViewport ==
    pPos # NOPOS =>
        /\ 0 <= pPos.style.left
        /\ pPos.style.left + cardWidth <= pPos.win.w

----------------------------------------------------------------------------
(* Claims about SimpleUpdateManager, checked under SpecUpdate and            *)
(* SpecUpdateFair                                                           *)

\* C24: in production, once the settings have loaded and shouldRunAutoCheck()
\* was true at that moment - the auto check has been scheduled - an update
\* check is eventually started by the timer unless the component unmounts,
\* whatever renders and changes of updateSettings or of the updater happen.
C24_AutoCheckEventuallyStarts ==
    (autoScheduled /\ ~isDev) ~> (autoStarted \/ ~mounted)

\* C30: at most one checkForUpdates call is in flight at any time.
C30_AtMostOneCheckInFlight == inFlight <= 1

====
